---- MODULE Spec2Model ----
(***************************************************************************)
(* A model of the utter deep pretty printer (dump.go, walk.go): the        *)
(* recursive dump / dumpPtr / dumpSlice traversal and the tracker-only     *)
(* walk / walkPtr / walkSlice traversal, run as an explicit call stack,    *)
(* one action per step of the code.                                        *)
(*                                                                         *)
(* A reflect.Value is a record [kind, typ, pkg, named, n, s, kids]:        *)
(*   kind   reflect.Kind                                                   *)
(*   typ    Type.String()        pkg  Type.PkgPath()                       *)
(*   named  Type.Name() # ""                                               *)
(*   n      the number of a scalar (Bool: 0/1); the address of a Ptr       *)
(*          (0 is nil); 0 for a nil Interface, Slice or Map, 1 otherwise   *)
(*   s      the text of a String, the fraction digits of a float           *)
(*   kids   the children of a compound or of a non-nil Interface           *)
(* and the memory is heap, a sequence indexed by address.                  *)
(***************************************************************************)
EXTENDS Integers, Sequences, FiniteSets, TLC

(***************************************************************************)
(* Bounds of the model.                                                    *)
(***************************************************************************)
\* dumps a caller runs one after the other
MaxRuns == 2
\* a failing sink fails its MaxFail-th write and every later one
MaxFail == 3
\* the model keeps the low IndirectBits bits of the int counter indirects
IndirectBits == 3
\* the model keeps at most MaxChain entries of pointerChain
MaxChain == 4
\* the history keeps the first MaxTrace references a traversal examines
MaxTrace == 6

Procs == {1, 2}

(***************************************************************************)
(* Values.                                                                 *)
(***************************************************************************)
Val(kind, typ, pkg, named, n, s, kids) ==
    [kind |-> kind, typ |-> typ, pkg |-> pkg, named |-> named,
     n |-> n, s |-> s, kids |-> kids]

\* the zero reflect.Value (reflect.ValueOf(nil))
NoVal == Val("Invalid", "", "", FALSE, 0, "", <<>>)

\* a record field, a sequence element, a mapping entry
Kid(name, exported, key, val) ==
    [name |-> name, exported |-> exported, key |-> key, val |-> val]

Elt(v) == Kid("", TRUE, NoVal, v)
Fld(name, v) == Kid(name, TRUE, NoVal, v)
Hid(name, v) == Kid(name, FALSE, NoVal, v)
Ent(k, v) == Kid("", TRUE, k, v)

IntV(n) == Val("Int", "int", "", TRUE, n, "", <<>>)
FlagV(n) == Val("Int", "main.Flag", "main", TRUE, n, "", <<>>)
Int32V(n) == Val("Int32", "int32", "", TRUE, n, "", <<>>)
Uint8V(n) == Val("Uint8", "uint8", "", TRUE, n, "", <<>>)
BoolV(n) == Val("Bool", "bool", "", TRUE, n, "", <<>>)
StrV(s) == Val("String", "string", "", TRUE, 0, s, <<>>)
F64V(n, frac) == Val("Float64", "float64", "", TRUE, n, frac, <<>>)
F32V(n, frac) == Val("Float32", "float32", "", TRUE, n, frac, <<>>)
PtrV(typ, a) == Val("Ptr", typ, "", FALSE, a, "", <<>>)
\* a value of a declared pointer type, such as  type P *P
NamedPtrV(typ, a) == Val("Ptr", typ, "main", TRUE, a, "", <<>>)
IfaceV(v) == Val("Interface", "interface {}", "", FALSE, 1, "", <<Elt(v)>>)
NilIface == Val("Interface", "interface {}", "", FALSE, 0, "", <<>>)
StructV(typ, fields) == Val("Struct", typ, "main", TRUE, 1, "", fields)
SliceV(typ, vals) ==
    Val("Slice", typ, "", FALSE, 1, "", [i \in 1..Len(vals) |-> Elt(vals[i])])
NilSlice(typ) == Val("Slice", typ, "", FALSE, 0, "", <<>>)
ArrayV(typ, vals) ==
    Val("Array", typ, "", FALSE, 1, "", [i \in 1..Len(vals) |-> Elt(vals[i])])
MapV(typ, entries) == Val("Map", typ, "", FALSE, 1, "", entries)
NilMap(typ) == Val("Map", typ, "", FALSE, 0, "", <<>>)

\* reflect.Value.IsNil for Ptr, Interface, Slice and Map
IsNil(v) == v.n = 0

(***************************************************************************)
(* The state.                                                              *)
(***************************************************************************)
VARIABLES
    heap,    \* the memory: heap[a] is the value stored at address a
    cs,      \* the ConfigState every dump reads (utter.Config)
    root,    \* root[p]: the argument a of caller p's fdump
    mode,    \* mode[p]: "dump" (fdump -> dump) or "walk" (the tracker-only walk),
             \* the traversal caller p makes first and then the one it last began
    ps,      \* ps[p]: "off", "idle", "running" or "done"
    runs,    \* runs[p]: the dumps caller p has started
    d,       \* d[p]: the dumpState of caller p's running dump
    w,       \* w[p]: the io.Writer of caller p's running dump
    stack,   \* stack[p]: the call stack below fdump, the innermost call last
    log,     \* log[p]: history: the references the chain walks examined
    tlog,    \* tlog[p]: history: how each value's type annotation was decided
    orders,  \* orders[p]: history: the key orders MapKeys returned
    prev     \* prev[p]: history: what caller p's previous dump did

vars == <<heap, cs, root, mode, ps, runs, d, w, stack, log, tlog, orders, prev>>

(***************************************************************************)
(* The literals of common.go.                                              *)
(***************************************************************************)
ampersandBytes == "&"
openParenBytes == "("
closeParenBytes == ")"
openBraceNewlineBytes == "{\n"
closeBraceBytes == "}"
colonSpaceBytes == ": "
commaNewlineBytes == ",\n"
newlineBytes == "\n"
nilBytes == "nil"
invalidAngleBytes == "<invalid>"
circularBytes == "<already shown>"
openCommentBytes == " /*"
closeCommentBytes == "*/ "
pointerChainBytes == "->"
hexZeroBytes == "0x"
interfaceBytes == "interface{}"

RECURSIVE Repeat(_, _)
\* bytes.Repeat
Repeat(s, n) == IF n <= 0 THEN "" ELSE s \o Repeat(s, n - 1)

HexDigit(n) ==
    CASE n = 10 -> "a" [] n = 11 -> "b" [] n = 12 -> "c" [] n = 13 -> "d"
      [] n = 14 -> "e" [] n = 15 -> "f" [] OTHER -> ToString(n)

RECURSIVE Hex(_)
\* strconv in base 16, no leading zeros
Hex(n) == IF n < 16 THEN HexDigit(n) ELSE Hex(n \div 16) \o HexDigit(n % 16)

printBool(n) == IF n = 1 THEN "true" ELSE "false"
printInt(n) == ToString(n)
printUint(n) == Hex(n)
\* printFloat(w, val, bits, dec): a float with no fraction digits is written
\* without a decimal point unless dec asks for one
printFloat(n, frac, dec) ==
    IF frac # "" THEN ToString(n) \o "." \o frac
    ELSE IF dec THEN ToString(n) \o ".0" ELSE ToString(n)
printHexPtr(a) == IF a = 0 THEN nilBytes ELSE hexZeroBytes \o Hex(a)
\* strconv.Quote of a text that needs no escape
Quote(s) == "\"" \o s \o "\""

(***************************************************************************)
(* hexDump (common.go), after the dumps of byte slices that the tests      *)
(* expect: every row is the indent, its bytes as 0x%02x, literals with a   *)
(* blank between, with CommentBytes the blanks of the bytes a short row    *)
(* lacks and  // |chars|, and a newline.                                   *)
(***************************************************************************)
\* a byte as two hexadecimal digits
Hex2(b) == HexDigit(b \div 16) \o HexDigit(b % 16)

\* the character shown for a byte: itself if printable, else a dot
ByteChar(b) ==
    CASE b = 32 -> " " [] b = 49 -> "1" [] b = 50 -> "2"
      [] b = 65 -> "A" [] b = 66 -> "B" [] b = 122 -> "z"
      [] OTHER -> "."

\* the number of rows of n bytes, width to a row
NumRows(n, width) == (n + width - 1) \div width

\* the bytes of the r-th row
RowBytes(buf, width, r) ==
    SubSeq(buf, (r - 1) * width + 1,
           IF r * width < Len(buf) THEN r * width ELSE Len(buf))

RECURSIVE RowHex(_, _)
\* the literals of a row from the i-th byte on
RowHex(bs, i) ==
    IF i > Len(bs) THEN ""
    ELSE (IF i > 1 THEN " " ELSE "") \o "0x" \o Hex2(bs[i]) \o ","
         \o RowHex(bs, i + 1)

RECURSIVE RowChars(_, _)
RowChars(bs, i) ==
    IF i > Len(bs) THEN "" ELSE ByteChar(bs[i]) \o RowChars(bs, i + 1)

\* one row of hexDump.  History beside the text: the bytes of the row, the
\* number of bytes it lacks, whether it has a comment, the characters of
\* the comment and the column at which the comment starts.
HexRow(bs, ind, nind, width, comment) ==
    [bytes |-> bs,
     pad |-> IF comment THEN width - Len(bs) ELSE 0,
     commented |-> comment,
     chars |-> IF comment THEN [i \in 1..Len(bs) |-> ByteChar(bs[i])] ELSE <<>>,
     col |-> IF comment THEN nind + 6 * Len(bs) - 1 + 6 * (width - Len(bs)) + 1
             ELSE 0,
     text |-> ind \o RowHex(bs, 1)
              \o (IF comment
                  THEN Repeat("      ", width - Len(bs)) \o " // |"
                       \o RowChars(bs, 1) \o "|"
                  ELSE "")
              \o "\n"]

\* hexDump(w, buf, indent, width, comment): its rows
hexDump(buf, ind, nind, width, comment) ==
    [r \in 1..NumRows(Len(buf), width) |->
        HexRow(RowBytes(buf, width, r), ind, nind, width, comment)]

\* bytes.Replace(typeBytes, interfaceTypeBytes, interfaceBytes, -1) over the
\* type names of the model
TypeText(t) ==
    CASE t = "interface {}" -> "interface{}"
      [] t = "*interface {}" -> "*interface{}"
      [] t = "[]interface {}" -> "[]interface{}"
      [] t = "map[interface {}]string" -> "map[interface{}]string"
      [] t = "map[interface {}]interface {}" -> "map[interface{}]interface{}"
      [] t = "map[string]interface {}" -> "map[string]interface{}"
      [] OTHER -> t

(***************************************************************************)
(* The writer.  w[p] = [out, att, nw, errs, failAt]: out is what the sink  *)
(* holds, att what the dump handed to Write, nw the Write calls, errs the  *)
(* errors Write returned; the sink fails every Write from the failAt-th on *)
(* (never when failAt = 0).                                                *)
(***************************************************************************)
NewWriter(k) == [out |-> "", att |-> "", nw |-> 0, errs |-> 0, failAt |-> k]

\* io.Writer.Write: the dump drops what it returns
Write(wr, b) ==
    IF wr.failAt # 0 /\ wr.nw + 1 >= wr.failAt
    THEN [wr EXCEPT !.att = @ \o b, !.nw = @ + 1, !.errs = @ + 1]
    ELSE [wr EXCEPT !.att = @ \o b, !.nw = @ + 1, !.out = @ \o b]

\* a dumpState and its writer, as the operators below thread them
M(dd, wr) == [d |-> dd, w |-> wr]

\* a dump that stops writing once a Write has returned an error
WrAbort(m, b) == [m EXCEPT !.w = IF @.errs > 0 THEN @ ELSE Write(@, b)]

\* the statement  d.w.Write(b): the result of Write is dropped and the dump
\* goes on
Wr(m, b) == [m EXCEPT !.w = Write(@, b)]

\* func (d *dumpState) indent()
indent(m) ==
    IF m.d.ignoreNextIndent
    THEN [m EXCEPT !.d.ignoreNextIndent = FALSE]
    ELSE Wr(m, Repeat(cs.Indent, m.d.depth))

\* func (d *dumpState) unpackValue: <<val, wasPtr, static>>
unpackValue(v) ==
    IF v.kind = "Interface" /\ ~IsNil(v)
    THEN <<v.kids[1].val, v.kind = "Ptr", FALSE>>
    ELSE <<v, v.kind = "Ptr", TRUE>>

\* an isDefault that takes both float kinds for default types
isDefaultFloats(v) ==
    IF v.pkg # "" \/ ~v.named THEN FALSE
    ELSE v.kind \in {"Int", "Float32", "Float64", "String", "Bool"}

\* func isDefault(typ reflect.Type) bool
isDefault(v) ==
    IF v.pkg # "" \/ ~v.named THEN FALSE
    ELSE v.kind = "Int" \/ v.kind = "Float64" \/ v.kind = "String" \/ v.kind = "Bool"

\* func isCompound(kind reflect.Kind) bool
isCompound(kind) ==
    kind = "Struct" \/ kind = "Slice" \/ kind = "Array" \/ kind = "Map"

\* a wantType that leaves static out
WantTypeNoStatic(v, wasPtr, static) ==
    IF cs.ElideType
    THEN (~(~wasPtr /\ isDefault(v)) \/ isCompound(v.kind))
         /\ ~(v.kind = "Interface" /\ IsNil(v))
    ELSE TRUE

\* wantType of dump
WantType(v, wasPtr, static) ==
    IF cs.ElideType
    THEN (~(static \/ (~wasPtr /\ isDefault(v))) \/ isCompound(v.kind))
         /\ ~(v.kind = "Interface" /\ IsNil(v))
    ELSE TRUE

(***************************************************************************)
(* The dumpState and the frames of the call stack.                         *)
(***************************************************************************)
\* the zero value of dumpState with its pointers map made
ZeroDumpState ==
    [depth |-> 0, pointers |-> <<>>, ignoreNextType |-> FALSE,
     ignoreNextIndent |-> FALSE, nodes |-> {}]

\* a dump that goes on with the dumpState the dump before it left behind
StaleDumpState(old) == old

\* fdump's  d := dumpState{w: w, cs: cs};  d.pointers = make(map[uintptr]int)
\* whatever dumpState old an earlier dump left behind
NewDumpState(old) == ZeroDumpState

\* A call of dump, dumpPtr, dumpSlice, walk, walkPtr or walkSlice.  pc is
\* the place the call has reached; v, wasPtr, static its arguments; i, keys
\* the position of its loop; ve, indirects, pointerChain, nilFound,
\* cycleFound the locals of dumpPtr and walkPtr.  History: d0 is d.depth at
\* the call, addrs the addresses this chain walk has dereferenced, names
\* the field names this record has written, sib whether a sibling of v
\* holds v's address.
Fr(pc, v, wasPtr, static, d0, sib) ==
    [pc |-> pc, v |-> v, wasPtr |-> wasPtr, static |-> static,
     i |-> 1, keys |-> <<>>,
     ve |-> NoVal, indirects |-> 0, pointerChain |-> <<>>,
     nilFound |-> FALSE, cycleFound |-> FALSE,
     d0 |-> d0, addrs |-> <<>>, names |-> <<>>, sib |-> sib]

Top(p) == stack[p][Len(stack[p])]
Pop(st) == SubSeq(st, 1, Len(st) - 1)
SetTop(st, f) == [st EXCEPT ![Len(st)] = f]
Running(p, pc) == ps[p] = "running" /\ stack[p] # <<>> /\ Top(p).pc = pc
Mp(p) == M(d[p], w[p])

Commit(p, m, st) ==
    /\ d' = [d EXCEPT ![p] = m.d]
    /\ w' = [w EXCEPT ![p] = m.w]
    /\ stack' = [stack EXCEPT ![p] = st]

\* the call  d.dump(d.unpackValue(x))  (or d.walk) made by frame f
Call(pc, x, dd, sib) ==
    LET u == unpackValue(x) IN Fr(pc, u[1], u[2], u[3], dd.depth, sib)

\* a record loop that skips no field
SkippedNever(field) == FALSE

\* if d.cs.IgnoreUnexported && vtf.PkgPath != "" { continue }
Skipped(field) == cs.IgnoreUnexported /\ ~field.exported

\* history: whether another child the traversal visits in the same compound
\* holds the address of the i-th child, both being non-nil references
SibDup(kids, i) ==
    /\ kids[i].val.kind = "Ptr" /\ ~IsNil(kids[i].val)
    /\ \E j \in 1..Len(kids) :
          /\ j # i
          /\ ~Skipped(kids[j])
          /\ kids[j].val.kind = "Ptr"
          /\ kids[j].val.n = kids[i].val.n

\* history: the addresses dereferenced by the chain walks still on the stack
RECURSIVE PathAddrs(_)
PathAddrs(st) ==
    IF st = <<>> THEN {}
    ELSE {st[Len(st)].addrs[k] : k \in 1..Len(st[Len(st)].addrs)}
         \cup PathAddrs(Pop(st))

(***************************************************************************)
(* dump: the type annotation, the scalar kinds, the nil compounds.         *)
(***************************************************************************)
IsOpen(v) ==
    \/ v.kind = "Struct" \/ v.kind = "Array"
    \/ (v.kind = "Slice" /\ ~IsNil(v))
    \/ (v.kind = "Map" /\ ~IsNil(v))

\* dump, "Print type information unless already handled elsewhere" and the
\* opening parenthesis
DumpHead(m, v, wt) ==
    LET m1 == IF ~m.d.ignoreNextType
              THEN IF wt THEN Wr(indent(m), TypeText(v.typ)) ELSE indent(m)
              ELSE m
        m2 == [m1 EXCEPT !.d.ignoreNextType = FALSE]
    IN IF wt /\ ~isCompound(v.kind) THEN Wr(m2, openParenBytes) ELSE m2

\* dump, the switch on kind for a value with no braces
DumpLeaf(m, v, wt) ==
    CASE v.kind = "Bool" -> Wr(m, printBool(v.n))
      [] v.kind \in {"Int", "Int8", "Int16", "Int32", "Int64"} ->
            Wr(m, printInt(v.n))
      [] v.kind \in {"Uint", "Uint8", "Uint16", "Uint32", "Uint64"} ->
            Wr(Wr(m, hexZeroBytes), printUint(v.n))
      [] v.kind \in {"Float32", "Float64"} ->
            Wr(m, printFloat(v.n, v.s, ~wt))
      [] v.kind = "String" -> Wr(m, Quote(v.s))
      [] v.kind = "Interface" -> IF IsNil(v) THEN Wr(m, nilBytes) ELSE m
      [] v.kind \in {"Slice", "Map"} ->
            Wr(Wr(Wr(m, openParenBytes), nilBytes), closeParenBytes)
      [] OTHER -> m

\* dump, the closing parenthesis
DumpTail(m, v, wt) ==
    IF wt /\ ~isCompound(v.kind) THEN Wr(m, closeParenBytes) ELSE m

\* history: one entry of tlog
TEntry(v, wasPtr, static, dd, wt) ==
    [typ |-> v.typ, kind |-> v.kind,
     nil |-> (v.kind \in {"Interface", "Slice", "Map"} /\ IsNil(v)),
     def |-> isDefault(v),
     wasPtr |-> wasPtr, static |-> static, depth |-> dd.depth,
     typed |-> IF dd.ignoreNextType THEN TRUE ELSE wt]

LogType(p, f) ==
    tlog' = [tlog EXCEPT ![p] = @ \cup
              {TEntry(f.v, f.wasPtr, f.static, d[p],
                      WantType(f.v, f.wasPtr, f.static))}]

\* dump of an invalid value, a scalar, a nil union-wrapper, a nil sequence or
\* a nil mapping
DumpValue(p) ==
    /\ Running(p, "dump")
    /\ Top(p).v.kind # "Ptr"
    /\ ~IsOpen(Top(p).v)
    /\ LET f == Top(p)
           wt == WantType(f.v, f.wasPtr, f.static)
       IN IF f.v.kind = "Invalid"
          THEN /\ Commit(p, Wr(Mp(p), invalidAngleBytes), Pop(stack[p]))
               /\ UNCHANGED tlog
          ELSE /\ Commit(p, DumpTail(DumpLeaf(DumpHead(Mp(p), f.v, wt), f.v, wt),
                                     f.v, wt),
                         Pop(stack[p]))
               /\ LogType(p, f)
    /\ UNCHANGED <<heap, cs, root, mode, ps, runs, log, orders, prev>>

\* dump of a reference: d.indent(); d.dumpPtr(v); return
DumpPtrCall(p) ==
    /\ Running(p, "dump")
    /\ Top(p).v.kind = "Ptr"
    /\ LET f == Top(p)
           m == indent(Mp(p))
       IN Commit(p, m,
                 Append(SetTop(stack[p], [f EXCEPT !.pc = "ret"]),
                        Fr("dumpPtr", f.v, FALSE, FALSE, m.d.depth, f.sib)))
    /\ UNCHANGED <<heap, cs, root, mode, ps, runs, log, tlog, orders, prev>>

\* a call that has nothing left to do but return
Return(p) ==
    /\ Running(p, "ret")
    /\ stack' = [stack EXCEPT ![p] = Pop(@)]
    /\ UNCHANGED <<heap, cs, root, mode, ps, runs, d, w, log, tlog, orders, prev>>

(***************************************************************************)
(* dumpPtr.                                                                *)
(***************************************************************************)
\* "Remove pointers at or below the current depth from map"
Purge(pointers, depth) ==
    [k \in {a \in DOMAIN pointers : pointers[a] < depth} |-> pointers[k]]

\* pd, ok := d.pointers[addr]; ok && pd < d.depth
CycleAt(pointers, addr, depth) ==
    addr \in DOMAIN pointers /\ pointers[addr] < depth

\* d.pointers[addr] = d.depth
Record(pointers, addr, depth) == (addr :> depth) @@ pointers

\* indirects++ on the int counter, of which IndirectBits bits are kept
Incr(n) == (n + 1) % (2 ^ IndirectBits)
\* a cycle test that keeps the count of the reference it stops at
DecrNone(n) == n

\* indirects-- on the same counter
Decr(n) == (n + (2 ^ IndirectBits) - 1) % (2 ^ IndirectBits)

\* a chain list that is never appended to
ChainAppendNone(chain, addr) == chain

\* append(pointerChain, addr), of which MaxChain entries are kept
ChainAppend(chain, addr) ==
    IF Len(chain) < MaxChain THEN Append(chain, addr) ELSE chain

\* history: one reference examined by a chain walk
Event(p, f, addr, dec) ==
    [addr |-> addr, depth |-> d[p].depth, dec |-> dec, sib |-> f.sib,
     first |-> (f.addrs = <<>>),
     onPath |-> (addr \in PathAddrs(stack[p]))]

\* history: the references examined, in order, each with the table as the
\* chain walk found it; MaxTrace entries are kept
Trace(seq, p, e) ==
    IF Len(seq) < MaxTrace
    THEN Append(seq, [addr |-> e.addr, depth |-> e.depth, dec |-> e.dec,
                      tbl |-> d[p].pointers])
    ELSE seq

LogEvent(p, e) ==
    log' = [log EXCEPT ![p].ev = @ \cup {e},
                       ![p].ncyc = IF e.dec = "cycle" THEN @ + 1 ELSE @,
                       ![p].seq = Trace(@, p, e)]

DumpPtrPurge(p) ==
    /\ Running(p, "dumpPtr")
    /\ d' = [d EXCEPT ![p].pointers = Purge(@, d[p].depth)]
    /\ stack' = [stack EXCEPT ![p] =
                   SetTop(@, [Top(p) EXCEPT !.pc = "chain", !.ve = Top(p).v])]
    /\ UNCHANGED <<heap, cs, root, mode, ps, runs, w, log, tlog, orders, prev>>

\* one turn of  for ve.Kind() == reflect.Ptr { ... }
DumpPtrChain(p) ==
    /\ Running(p, "chain")
    /\ LET f == Top(p)
           addr == f.ve.n
           chain == IF cs.CommentPointers
                    THEN ChainAppend(f.pointerChain, addr) ELSE f.pointerChain
           e == heap[addr]
       IN /\ f.ve.kind = "Ptr" /\ ~f.nilFound /\ ~f.cycleFound
          /\ IF IsNil(f.ve)
             THEN /\ stack' = [stack EXCEPT ![p] =
                                 SetTop(@, [f EXCEPT !.nilFound = TRUE])]
                  /\ LogEvent(p, Event(p, f, 0, "nil"))
                  /\ UNCHANGED d
             ELSE IF CycleAt(d[p].pointers, addr, d[p].depth)
             THEN /\ stack' = [stack EXCEPT ![p] =
                                 SetTop(@, [f EXCEPT !.cycleFound = TRUE,
                                                     !.pointerChain = chain,
                                                     !.indirects = Decr(Incr(@))])]
                  /\ LogEvent(p, Event(p, f, addr, "cycle"))
                  /\ UNCHANGED d
             ELSE /\ d' = [d EXCEPT ![p].pointers = Record(@, addr, d[p].depth)]
                  /\ stack' = [stack EXCEPT ![p] =
                       SetTop(@, [f EXCEPT
                          !.indirects = Incr(@),
                          !.pointerChain = chain,
                          !.addrs = IF addr \in {f.addrs[k] : k \in 1..Len(f.addrs)}
                                    THEN @ ELSE Append(@, addr),
                          !.nilFound = (e.kind = "Interface" /\ IsNil(e)),
                          !.ve = IF e.kind = "Interface" /\ ~IsNil(e)
                                 THEN e.kids[1].val ELSE e])]
                  /\ LogEvent(p, Event(p, f, addr,
                                 IF e.kind = "Interface" /\ IsNil(e)
                                 THEN "derefnil" ELSE "deref"))
    /\ UNCHANGED <<heap, cs, root, mode, ps, runs, w, tlog, orders, prev>>

\* typeBytes[0] == '*'
StartsWithStar(v) == v.kind = "Ptr" /\ ~v.named

RECURSIVE ChainText(_, _)
\* the addresses of pointerChain from the i-th on, pointerChainBytes between
ChainText(chain, i) ==
    IF i > Len(chain) THEN ""
    ELSE (IF i > 1 THEN pointerChainBytes ELSE "") \o printHexPtr(chain[i])
         \o ChainText(chain, i + 1)

\* a dumpPtr that writes no reference marker
PtrHeadBare(m, f) ==
    IF StartsWithStar(f.ve)
    THEN Wr(Wr(Wr(m, openParenBytes), TypeText(f.ve.typ)), closeParenBytes)
    ELSE Wr(m, TypeText(f.ve.typ))

\* dumpPtr, "Display type information" and "Display pointer information"
PtrHead(m, f) ==
    LET m1 == Wr(m, Repeat(ampersandBytes, f.indirects))
        m2 == IF StartsWithStar(f.ve)
              THEN Wr(Wr(Wr(m1, openParenBytes), TypeText(f.ve.typ)), closeParenBytes)
              ELSE Wr(m1, TypeText(f.ve.typ))
    IN IF Len(f.pointerChain) > 0
       THEN Wr(Wr(Wr(m2, openCommentBytes), ChainText(f.pointerChain, 1)),
               closeCommentBytes)
       ELSE m2

\* dumpPtr after the loop
DumpPtrShow(p) ==
    /\ Running(p, "chain")
    /\ LET f == Top(p)
           m == PtrHead(Mp(p), f)
       IN /\ f.ve.kind # "Ptr" \/ f.nilFound \/ f.cycleFound
          /\ IF f.nilFound
             THEN /\ Commit(p, Wr(Wr(Wr(m, openParenBytes), nilBytes), closeParenBytes),
                            Pop(stack[p]))
                  /\ UNCHANGED log
             ELSE IF f.cycleFound
             THEN /\ Commit(p, Wr(m, circularBytes), Pop(stack[p]))
                  /\ log' = [log EXCEPT ![p].nmark = @ + 1]
             ELSE /\ Commit(p, [m EXCEPT !.d.ignoreNextType = TRUE],
                            Append(SetTop(stack[p], [f EXCEPT !.pc = "ret"]),
                                   Fr("dump", f.ve, TRUE, FALSE, m.d.depth, FALSE)))
                  /\ UNCHANGED log
    /\ UNCHANGED <<heap, cs, root, mode, ps, runs, tlog, orders, prev>>

(***************************************************************************)
(* sortValues (common.go).                                                 *)
(***************************************************************************)
\* the order of the texts of the model
StrRank(x) ==
    CASE x = "" -> 0 [] x = "a" -> 1 [] x = "b" -> 2 [] x = "c" -> 3
      [] x = "one" -> 4 [] x = "two" -> 5 [] OTHER -> 6

StrLess(x, y) == x # y /\ StrRank(x) < StrRank(y)

\* reflect.Value.String() of a value that is not of String kind
ValueString(v) == "<" \o v.typ \o " Value>"

\* valuesSorter.Less: bool, integer, float and string keys natively, keys of
\* every other kind by their reflect.Value.String()
Less(a, b) ==
    CASE a.kind = "Bool" -> a.n = 0 /\ b.n = 1
      [] a.kind \in {"Int", "Int8", "Int16", "Int32", "Int64",
                     "Uint", "Uint8", "Uint16", "Uint32", "Uint64", "Uintptr"} ->
            a.n < b.n
      [] a.kind \in {"Float32", "Float64"} ->
            a.n < b.n \/ (a.n = b.n /\ StrLess(a.s, b.s))
      [] a.kind = "String" -> StrLess(a.s, b.s)
      [] OTHER -> StrLess(ValueString(a), ValueString(b))

\* entry e put into the sorted entries es, after the entries not greater
Insert(es, e) ==
    LET k == Cardinality({j \in 1..Len(es) : ~Less(e.key, es[j].key)})
    IN SubSeq(es, 1, k) \o <<e>> \o SubSeq(es, k + 1, Len(es))

RECURSIVE SortFrom(_, _, _)
SortFrom(es, i, acc) ==
    IF i > Len(es) THEN acc ELSE SortFrom(es, i + 1, Insert(acc, es[i]))

\* sortValues(keys): keys in the order of Less
sortValues(es) == SortFrom(es, 1, <<>>)

\* the permutations of 1..n
Perms(n) == {f \in [1..n -> 1..n] : \A i, j \in 1..n : f[i] = f[j] => i = j}

\* keys := v.MapKeys(); if d.cs.SortKeys { sortValues(keys) }
\* the entries of mapping v as MapKeys hands them out in order perm
Keys(v, perm) ==
    LET ks == [i \in 1..Len(v.kids) |-> v.kids[perm[i]]]
    IN IF cs.SortKeys THEN sortValues(ks) ELSE ks

(***************************************************************************)
(* dump: sequences, mappings, records.                                     *)
(***************************************************************************)
\* a dumpSlice that takes no sequence for bytes
NoHexDump(v) == FALSE

\* dumpSlice's doHexDump: the elements are bytes
DoHexDump(v) == Len(v.kids) > 0 /\ v.kids[1].val.kind = "Uint8"

\* dump of a non-nil sequence up to the call of dumpSlice
DumpSliceOpen(p) ==
    /\ Running(p, "dump")
    /\ Top(p).v.kind \in {"Slice", "Array"} /\ IsOpen(Top(p).v)
    /\ LET f == Top(p)
           wt == WantType(f.v, f.wasPtr, f.static)
           m == Wr(DumpHead(Mp(p), f.v, wt), openBraceNewlineBytes)
           m1 == [m EXCEPT !.d.depth = @ + 1]
       IN Commit(p, m1,
                 Append(SetTop(stack[p], [f EXCEPT !.pc = "sliceClose"]),
                        Fr("dumpSlice", f.v, FALSE, FALSE, m1.d.depth, FALSE)))
    /\ LogType(p, Top(p))
    /\ UNCHANGED <<heap, cs, root, mode, ps, runs, log, orders, prev>>

\* dumpSlice: d.dump(d.unpackValue(vi))
DumpSliceElem(p) ==
    /\ Running(p, "dumpSlice")
    /\ ~DoHexDump(Top(p).v)
    /\ Top(p).i <= Len(Top(p).v.kids)
    /\ LET f == Top(p) IN
       stack' = [stack EXCEPT ![p] =
          Append(SetTop(@, [f EXCEPT !.pc = "sliceElemRet"]),
                 Call("dump", f.v.kids[f.i].val, d[p], SibDup(f.v.kids, f.i)))]
    /\ UNCHANGED <<heap, cs, root, mode, ps, runs, d, w, log, tlog, orders, prev>>

\* dumpSlice: d.w.Write(commaNewlineBytes) and the next i
DumpSliceElemRet(p) ==
    /\ Running(p, "sliceElemRet")
    /\ Commit(p, Wr(Mp(p), commaNewlineBytes),
              SetTop(stack[p], [Top(p) EXCEPT !.pc = "dumpSlice", !.i = @ + 1]))
    /\ UNCHANGED <<heap, cs, root, mode, ps, runs, log, tlog, orders, prev>>

RECURSIVE WriteRows(_, _, _)
\* hexDump's writes, a row at a time from the i-th row on
WriteRows(m, rows, i) ==
    IF i > Len(rows) THEN m ELSE WriteRows(Wr(m, rows[i].text), rows, i + 1)

\* the bytes of a sequence of bytes
BufOf(v) == [i \in 1..Len(v.kids) |-> v.kids[i].val.n]

\* dumpSlice of bytes: hexDump(d.w, buf, indent, d.cs.BytesWidth,
\* d.cs.CommentBytes); return
DumpSliceHex(p) ==
    /\ Running(p, "dumpSlice")
    /\ DoHexDump(Top(p).v)
    /\ LET rows == hexDump(BufOf(Top(p).v), Repeat(cs.Indent, d[p].depth),
                           d[p].depth, cs.BytesWidth, cs.CommentBytes)
       IN /\ Commit(p, WriteRows(Mp(p), rows, 1), Pop(stack[p]))
          /\ log' = [log EXCEPT ![p].buf = BufOf(Top(p).v), ![p].rows = rows]
    /\ UNCHANGED <<heap, cs, root, mode, ps, runs, tlog, orders, prev>>

\* dumpSlice returns
DumpSliceEnd(p) ==
    /\ Running(p, "dumpSlice")
    /\ ~DoHexDump(Top(p).v)
    /\ Top(p).i > Len(Top(p).v.kids)
    /\ stack' = [stack EXCEPT ![p] = Pop(@)]
    /\ UNCHANGED <<heap, cs, root, mode, ps, runs, d, w, log, tlog, orders, prev>>

\* the closing brace of a compound that forgets d.depth--
CloseBraceDeep(m) == Wr(indent(m), closeBraceBytes)

\* d.depth--; d.indent(); d.w.Write(closeBraceBytes)
CloseBrace(m) ==
    Wr(indent([m EXCEPT !.d.depth = @ - 1]), closeBraceBytes)

DumpSliceClose(p) ==
    /\ Running(p, "sliceClose")
    /\ Commit(p, CloseBrace(Mp(p)), Pop(stack[p]))
    /\ UNCHANGED <<heap, cs, root, mode, ps, runs, log, tlog, orders, prev>>

\* dump of a non-nil mapping up to its loop
DumpMapOpen(p) ==
    /\ Running(p, "dump")
    /\ Top(p).v.kind = "Map" /\ IsOpen(Top(p).v)
    /\ \E perm \in Perms(Len(Top(p).v.kids)) :
         LET f == Top(p)
             wt == WantType(f.v, f.wasPtr, f.static)
             m == Wr(DumpHead(Mp(p), f.v, wt), openBraceNewlineBytes)
         IN /\ Commit(p, [m EXCEPT !.d.depth = @ + 1],
                      SetTop(stack[p], [f EXCEPT !.pc = "mapLoop",
                                                 !.keys = Keys(f.v, perm)]))
            /\ orders' = [orders EXCEPT ![p] = Append(@, perm)]
    /\ LogType(p, Top(p))
    /\ UNCHANGED <<heap, cs, root, mode, ps, runs, log, prev>>

\* d.dump(d.unpackValue(key))
DumpMapKey(p) ==
    /\ Running(p, "mapLoop")
    /\ Top(p).i <= Len(Top(p).keys)
    /\ LET f == Top(p) IN
       stack' = [stack EXCEPT ![p] =
          Append(SetTop(@, [f EXCEPT !.pc = "mapKeyRet"]),
                 Call("dump", f.keys[f.i].key, d[p], FALSE))]
    /\ UNCHANGED <<heap, cs, root, mode, ps, runs, d, w, log, tlog, orders, prev>>

\* colon, d.ignoreNextIndent = true, d.dump(d.unpackValue(v.MapIndex(key)))
DumpMapValue(p) ==
    /\ Running(p, "mapKeyRet")
    /\ LET f == Top(p)
           m == [Wr(Mp(p), colonSpaceBytes) EXCEPT !.d.ignoreNextIndent = TRUE]
       IN Commit(p, m,
                 Append(SetTop(stack[p], [f EXCEPT !.pc = "mapValRet"]),
                        Call("dump", f.keys[f.i].val, m.d, SibDup(f.keys, f.i))))
    /\ UNCHANGED <<heap, cs, root, mode, ps, runs, log, tlog, orders, prev>>

DumpMapPairEnd(p) ==
    /\ Running(p, "mapValRet")
    /\ Commit(p, Wr(Mp(p), commaNewlineBytes),
              SetTop(stack[p], [Top(p) EXCEPT !.pc = "mapLoop", !.i = @ + 1]))
    /\ UNCHANGED <<heap, cs, root, mode, ps, runs, log, tlog, orders, prev>>

DumpMapClose(p) ==
    /\ Running(p, "mapLoop")
    /\ Top(p).i > Len(Top(p).keys)
    /\ Commit(p, CloseBrace(Mp(p)), Pop(stack[p]))
    /\ UNCHANGED <<heap, cs, root, mode, ps, runs, log, tlog, orders, prev>>

\* dump of a record up to its loop
DumpStructOpen(p) ==
    /\ Running(p, "dump")
    /\ Top(p).v.kind = "Struct"
    /\ LET f == Top(p)
           wt == WantType(f.v, f.wasPtr, f.static)
           m == Wr(DumpHead(Mp(p), f.v, wt), openBraceNewlineBytes)
       IN Commit(p, [m EXCEPT !.d.depth = @ + 1],
                 SetTop(stack[p], [f EXCEPT !.pc = "structLoop"]))
    /\ LogType(p, Top(p))
    /\ UNCHANGED <<heap, cs, root, mode, ps, runs, log, orders, prev>>

DumpStructField(p) ==
    /\ Running(p, "structLoop")
    /\ Top(p).i <= Len(Top(p).v.kids)
    /\ ~Skipped(Top(p).v.kids[Top(p).i])
    /\ LET f == Top(p)
           fld == f.v.kids[f.i]
           m == [Wr(Wr(indent(Mp(p)), fld.name), colonSpaceBytes)
                   EXCEPT !.d.ignoreNextIndent = TRUE]
       IN Commit(p, m,
                 Append(SetTop(stack[p], [f EXCEPT !.pc = "fieldRet",
                                                   !.names = Append(@, fld.name)]),
                        Call("dump", fld.val, m.d, SibDup(f.v.kids, f.i))))
    /\ UNCHANGED <<heap, cs, root, mode, ps, runs, log, tlog, orders, prev>>

DumpStructSkip(p) ==
    /\ Running(p, "structLoop")
    /\ Top(p).i <= Len(Top(p).v.kids)
    /\ Skipped(Top(p).v.kids[Top(p).i])
    /\ stack' = [stack EXCEPT ![p] = SetTop(@, [Top(p) EXCEPT !.i = @ + 1])]
    /\ UNCHANGED <<heap, cs, root, mode, ps, runs, d, w, log, tlog, orders, prev>>

DumpStructFieldEnd(p) ==
    /\ Running(p, "fieldRet")
    /\ Commit(p, Wr(Mp(p), commaNewlineBytes),
              SetTop(stack[p], [Top(p) EXCEPT !.pc = "structLoop", !.i = @ + 1]))
    /\ UNCHANGED <<heap, cs, root, mode, ps, runs, log, tlog, orders, prev>>

DumpStructClose(p) ==
    /\ Running(p, "structLoop")
    /\ Top(p).i > Len(Top(p).v.kids)
    /\ Commit(p, CloseBrace(Mp(p)), Pop(stack[p]))
    /\ UNCHANGED <<heap, cs, root, mode, ps, runs, log, tlog, orders, prev>>

(***************************************************************************)
(* walk, walkPtr, walkSlice (walk.go).                                     *)
(***************************************************************************)
\* walk of a value it does not follow
WalkValue(p) ==
    /\ Running(p, "walk")
    /\ Top(p).v.kind # "Ptr"
    /\ ~IsOpen(Top(p).v)
    /\ stack' = [stack EXCEPT ![p] = Pop(@)]
    /\ UNCHANGED <<heap, cs, root, mode, ps, runs, d, w, log, tlog, orders, prev>>

\* d.walkPtr(v); return
WalkPtrCall(p) ==
    /\ Running(p, "walk")
    /\ Top(p).v.kind = "Ptr"
    /\ stack' = [stack EXCEPT ![p] =
          Append(SetTop(@, [Top(p) EXCEPT !.pc = "ret"]),
                 Fr("walkPtr", Top(p).v, FALSE, FALSE, d[p].depth, Top(p).sib))]
    /\ UNCHANGED <<heap, cs, root, mode, ps, runs, d, w, log, tlog, orders, prev>>

WalkPtrPurge(p) ==
    /\ Running(p, "walkPtr")
    /\ d' = [d EXCEPT ![p].pointers = Purge(@, d[p].depth)]
    /\ stack' = [stack EXCEPT ![p] =
                   SetTop(@, [Top(p) EXCEPT !.pc = "wchain", !.ve = Top(p).v])]
    /\ UNCHANGED <<heap, cs, root, mode, ps, runs, w, log, tlog, orders, prev>>

\* one turn of walkPtr's  for ve.Kind() == reflect.Ptr { ... }
\* (history: indirects counts the turns, as in dumpPtr)
WalkPtrChain(p) ==
    /\ Running(p, "wchain")
    /\ LET f == Top(p)
           addr == f.ve.n
           e == heap[addr]
           ve2 == IF e.kind = "Interface" /\ ~IsNil(e) THEN e.kids[1].val ELSE e
       IN /\ f.ve.kind = "Ptr" /\ ~f.nilFound /\ ~f.cycleFound
          /\ IF IsNil(f.ve)
             THEN /\ stack' = [stack EXCEPT ![p] =
                                 SetTop(@, [f EXCEPT !.nilFound = TRUE])]
                  /\ LogEvent(p, Event(p, f, 0, "nil"))
                  /\ UNCHANGED d
             ELSE IF CycleAt(d[p].pointers, addr, d[p].depth)
             THEN /\ stack' = [stack EXCEPT ![p] =
                                 SetTop(@, [f EXCEPT !.cycleFound = TRUE])]
                  /\ LogEvent(p, Event(p, f, addr, "cycle"))
                  /\ UNCHANGED d
             ELSE /\ d' = [d EXCEPT
                       ![p].pointers = Record(@, addr, d[p].depth),
                       ![p].nodes = @ \cup {<<addr, f.ve.typ>>}
                                      \cup (IF e.kind = "Interface" /\ IsNil(e)
                                            THEN {} ELSE {<<addr, ve2.typ>>})]
                  /\ stack' = [stack EXCEPT ![p] =
                       SetTop(@, [f EXCEPT
                          !.indirects = Incr(@),
                          !.addrs = IF addr \in {f.addrs[k] : k \in 1..Len(f.addrs)}
                                    THEN @ ELSE Append(@, addr),
                          !.nilFound = (e.kind = "Interface" /\ IsNil(e)),
                          !.ve = ve2])]
                  /\ LogEvent(p, Event(p, f, addr,
                                 IF e.kind = "Interface" /\ IsNil(e)
                                 THEN "derefnil" ELSE "deref"))
    /\ UNCHANGED <<heap, cs, root, mode, ps, runs, w, tlog, orders, prev>>

\* walkPtr after the loop
WalkPtrDone(p) ==
    /\ Running(p, "wchain")
    /\ LET f == Top(p) IN
       /\ f.ve.kind # "Ptr" \/ f.nilFound \/ f.cycleFound
       /\ stack' = [stack EXCEPT ![p] =
             IF ~f.nilFound /\ ~f.cycleFound
             THEN Append(SetTop(@, [f EXCEPT !.pc = "ret"]),
                         Fr("walk", f.ve, TRUE, FALSE, d[p].depth, FALSE))
             ELSE Pop(@)]
    /\ UNCHANGED <<heap, cs, root, mode, ps, runs, d, w, log, tlog, orders, prev>>

\* walk of a non-nil sequence: d.walkSlice(v), which starts with d.depth++
WalkSliceOpen(p) ==
    /\ Running(p, "walk")
    /\ Top(p).v.kind \in {"Slice", "Array"} /\ IsOpen(Top(p).v)
    /\ d' = [d EXCEPT ![p].depth = @ + 1]
    /\ stack' = [stack EXCEPT ![p] =
          Append(SetTop(@, [Top(p) EXCEPT !.pc = "ret"]),
                 Fr("walkSlice", Top(p).v, FALSE, FALSE, d[p].depth, FALSE))]
    /\ UNCHANGED <<heap, cs, root, mode, ps, runs, w, log, tlog, orders, prev>>

WalkSliceElem(p) ==
    /\ Running(p, "walkSlice")
    /\ Top(p).i <= Len(Top(p).v.kids)
    /\ LET f == Top(p) IN
       stack' = [stack EXCEPT ![p] =
          Append(SetTop(@, [f EXCEPT !.i = @ + 1]),
                 Call("walk", f.v.kids[f.i].val, d[p], SibDup(f.v.kids, f.i)))]
    /\ UNCHANGED <<heap, cs, root, mode, ps, runs, d, w, log, tlog, orders, prev>>

\* walkSlice: d.depth-- and return
WalkSliceEnd(p) ==
    /\ Running(p, "walkSlice")
    /\ Top(p).i > Len(Top(p).v.kids)
    /\ d' = [d EXCEPT ![p].depth = @ - 1]
    /\ stack' = [stack EXCEPT ![p] = Pop(@)]
    /\ UNCHANGED <<heap, cs, root, mode, ps, runs, w, log, tlog, orders, prev>>

\* walk of a non-nil mapping: d.depth++; keys := v.MapKeys()
WalkMapOpen(p) ==
    /\ Running(p, "walk")
    /\ Top(p).v.kind = "Map" /\ IsOpen(Top(p).v)
    /\ \E perm \in Perms(Len(Top(p).v.kids)) :
         /\ stack' = [stack EXCEPT ![p] =
               SetTop(@, [Top(p) EXCEPT
                  !.pc = "wmapLoop",
                  !.keys = [i \in 1..Len(Top(p).v.kids) |-> Top(p).v.kids[perm[i]]]])]
         /\ orders' = [orders EXCEPT ![p] = Append(@, perm)]
    /\ d' = [d EXCEPT ![p].depth = @ + 1]
    /\ UNCHANGED <<heap, cs, root, mode, ps, runs, w, log, tlog, prev>>

WalkMapKey(p) ==
    /\ Running(p, "wmapLoop")
    /\ Top(p).i <= Len(Top(p).keys)
    /\ LET f == Top(p) IN
       stack' = [stack EXCEPT ![p] =
          Append(SetTop(@, [f EXCEPT !.pc = "wmapKeyRet"]),
                 Call("walk", f.keys[f.i].key, d[p], FALSE))]
    /\ UNCHANGED <<heap, cs, root, mode, ps, runs, d, w, log, tlog, orders, prev>>

WalkMapValue(p) ==
    /\ Running(p, "wmapKeyRet")
    /\ LET f == Top(p) IN
       stack' = [stack EXCEPT ![p] =
          Append(SetTop(@, [f EXCEPT !.pc = "wmapLoop", !.i = @ + 1]),
                 Call("walk", f.keys[f.i].val, d[p], SibDup(f.keys, f.i)))]
    /\ UNCHANGED <<heap, cs, root, mode, ps, runs, d, w, log, tlog, orders, prev>>

WalkMapClose(p) ==
    /\ Running(p, "wmapLoop")
    /\ Top(p).i > Len(Top(p).keys)
    /\ d' = [d EXCEPT ![p].depth = @ - 1]
    /\ stack' = [stack EXCEPT ![p] = Pop(@)]
    /\ UNCHANGED <<heap, cs, root, mode, ps, runs, w, log, tlog, orders, prev>>

\* walk of a record: d.depth++
WalkStructOpen(p) ==
    /\ Running(p, "walk")
    /\ Top(p).v.kind = "Struct"
    /\ d' = [d EXCEPT ![p].depth = @ + 1]
    /\ stack' = [stack EXCEPT ![p] = SetTop(@, [Top(p) EXCEPT !.pc = "wstructLoop"])]
    /\ UNCHANGED <<heap, cs, root, mode, ps, runs, w, log, tlog, orders, prev>>

WalkStructField(p) ==
    /\ Running(p, "wstructLoop")
    /\ Top(p).i <= Len(Top(p).v.kids)
    /\ ~Skipped(Top(p).v.kids[Top(p).i])
    /\ LET f == Top(p) IN
       stack' = [stack EXCEPT ![p] =
          Append(SetTop(@, [f EXCEPT !.i = @ + 1,
                                     !.names = Append(@, f.v.kids[f.i].name)]),
                 Call("walk", f.v.kids[f.i].val, d[p], SibDup(f.v.kids, f.i)))]
    /\ UNCHANGED <<heap, cs, root, mode, ps, runs, d, w, log, tlog, orders, prev>>

WalkStructSkip(p) ==
    /\ Running(p, "wstructLoop")
    /\ Top(p).i <= Len(Top(p).v.kids)
    /\ Skipped(Top(p).v.kids[Top(p).i])
    /\ stack' = [stack EXCEPT ![p] = SetTop(@, [Top(p) EXCEPT !.i = @ + 1])]
    /\ UNCHANGED <<heap, cs, root, mode, ps, runs, d, w, log, tlog, orders, prev>>

WalkStructClose(p) ==
    /\ Running(p, "wstructLoop")
    /\ Top(p).i > Len(Top(p).v.kids)
    /\ d' = [d EXCEPT ![p].depth = @ - 1]
    /\ stack' = [stack EXCEPT ![p] = Pop(@)]
    /\ UNCHANGED <<heap, cs, root, mode, ps, runs, w, log, tlog, orders, prev>>

(***************************************************************************)
(* The top-level calls.                                                    *)
(***************************************************************************)
RECURSIVE Strip(_)
\* value v without the unexported fields of its records
Strip(v) ==
    LET ks == IF v.kind = "Struct"
              THEN SelectSeq(v.kids, LAMBDA k : k.exported) ELSE v.kids
    IN [v EXCEPT !.kids = [i \in 1..Len(ks) |->
                             [ks[i] EXCEPT !.key = Strip(@), !.val = Strip(@)]]]

\* history: what the dump that has just ended did
Summary(p) ==
    [valid |-> TRUE, root |-> root[p], att |-> w[p].att, errs |-> w[p].errs,
     orders |-> orders[p], ev |-> log[p].ev, nodes |-> d[p].nodes,
     tlog |-> tlog[p], mode |-> mode[p], seq |-> log[p].seq]

NoSummary ==
    [valid |-> FALSE, root |-> NoVal, att |-> "", errs |-> 0, orders |-> <<>>,
     ev |-> {}, nodes |-> {}, tlog |-> {}, mode |-> "", seq |-> <<>>]

NoLog ==
    [ev |-> {}, ncyc |-> 0, nmark |-> 0, buf |-> <<>>, rows |-> <<>>, seq |-> <<>>]

\* one caller runs up to MaxRuns dumps, one after the other; two callers at
\* the same time run one dump each
RunLimit == IF \E q \in Procs : ps[q] = "off" THEN MaxRuns ELSE 1

\* the sinks: one that never fails and, for a caller alone, one that fails
FailAts == IF \E q \in Procs : ps[q] = "off" THEN {0, MaxFail} ELSE {0}

\* a caller starts a dump: of the value it dumped before, or of that value
\* without its unexported fields
Begin(p, r) ==
    /\ ps[p] \in {"idle", "done"}
    /\ runs[p] < RunLimit
    /\ r \in IF ps[p] = "idle" THEN {root[p]} ELSE {root[p], Strip(root[p])}
    /\ root' = [root EXCEPT ![p] = r]
    /\ runs' = [runs EXCEPT ![p] = @ + 1]
    /\ prev' = [prev EXCEPT ![p] = IF ps[p] = "done" THEN Summary(p) ELSE @]
    /\ log' = [log EXCEPT ![p] = NoLog]
    /\ tlog' = [tlog EXCEPT ![p] = {}]
    /\ orders' = [orders EXCEPT ![p] = <<>>]

\* func fdump(cs *ConfigState, w io.Writer, a interface{}) up to d.dump
Fdump(p) ==
    /\ ps[p] = "idle" => mode[p] = "dump"
    /\ mode' = [mode EXCEPT ![p] = "dump"]
    /\ \E r \in {root[p], Strip(root[p])}, k \in FailAts :
         /\ Begin(p, r)
         /\ IF r = NoVal
            THEN /\ w' = [w EXCEPT ![p] =
                      Write(Write(Write(Write(Write(NewWriter(k),
                         interfaceBytes), openParenBytes), nilBytes),
                         closeParenBytes), newlineBytes)]
                 /\ ps' = [ps EXCEPT ![p] = "done"]
                 /\ UNCHANGED <<d, stack>>
            ELSE /\ w' = [w EXCEPT ![p] = NewWriter(k)]
                 /\ d' = [d EXCEPT ![p] = NewDumpState(d[p])]
                 /\ stack' = [stack EXCEPT ![p] =
                                <<Fr("dump", r, FALSE, FALSE, 0, FALSE)>>]
                 /\ ps' = [ps EXCEPT ![p] = "running"]
    /\ UNCHANGED <<heap, cs>>

\* fdump after d.dump: d.w.Write(newlineBytes)
FdumpEnd(p) ==
    /\ mode[p] = "dump"
    /\ ps[p] = "running" /\ stack[p] = <<>>
    /\ w' = [w EXCEPT ![p] = Write(@, newlineBytes)]
    /\ ps' = [ps EXCEPT ![p] = "done"]
    /\ UNCHANGED <<heap, cs, root, mode, runs, d, stack, log, tlog, orders, prev>>

\* the tracker-only traversal of a value: a dumpState of its own and
\* d.walk(v, false, false, 0)
WalkStart(p) ==
    /\ ps[p] = "idle" => mode[p] = "walk"
    /\ mode' = [mode EXCEPT ![p] = "walk"]
    /\ \E r \in {root[p], Strip(root[p])} :
         /\ Begin(p, r)
         /\ r # NoVal
         /\ stack' = [stack EXCEPT ![p] = <<Fr("walk", r, FALSE, FALSE, 0, FALSE)>>]
    /\ w' = [w EXCEPT ![p] = NewWriter(0)]
    /\ d' = [d EXCEPT ![p] = NewDumpState(d[p])]
    /\ ps' = [ps EXCEPT ![p] = "running"]
    /\ UNCHANGED <<heap, cs>>

WalkEnd(p) ==
    /\ mode[p] = "walk"
    /\ ps[p] = "running" /\ stack[p] = <<>>
    /\ ps' = [ps EXCEPT ![p] = "done"]
    /\ UNCHANGED <<heap, cs, root, mode, runs, d, w, stack, log, tlog, orders, prev>>

(***************************************************************************)
(* The values dumped.                                                      *)
(***************************************************************************)
P(a) == PtrV("*int", a)
NodeV(n, a) == StructV("main.Node", <<Fld("val", IntV(n)), Fld("next", PtrV("*main.Node", a))>>)
InnerV(a, b) == StructV("main.Inner", <<Fld("q", P(a)), Fld("r", P(b))>>)
BarV == StructV("main.Bar", <<Hid("flag", FlagV(1)), Hid("data", IntV(0))>>)

\* values that hold no reference
Scalars ==
    [heap |-> <<>>,
     roots |-> {
        NoVal, IntV(1), F64V(1, ""), F64V(1, "5"), F32V(1, ""), StrV("one"),
        BoolV(1), FlagV(1), Uint8V(64), Int32V(97),
        NilSlice("[]int"), NilMap("map[string]int"),
        ArrayV("[1]string", <<StrV("a")>>),
        SliceV("[]float32", <<F32V(1, ""), F32V(2, "")>>),
        SliceV("[]interface {}", <<IfaceV(F64V(1, "")), IfaceV(F32V(1, "")),
                                   IfaceV(IntV(1)), NilIface>>),
        SliceV("[]main.Flag", <<FlagV(2)>>),
        MapV("map[int]string", <<Ent(IntV(2), StrV("b")), Ent(IntV(3), StrV("c")),
                                 Ent(IntV(1), StrV("a"))>>),
        MapV("map[string]bool", <<Ent(StrV("two"), BoolV(0)), Ent(StrV("one"), BoolV(1))>>),
        StructV("main.Foo", <<Hid("unexportedField", BarV),
                              Fld("ExportedField",
                                  MapV("map[interface {}]interface {}",
                                       <<Ent(IfaceV(StrV("one")), IfaceV(BoolV(1)))>>))>>)
     }]

\* references to two equal numbers
Shared ==
    [heap |-> <<IntV(7), IntV(7)>>,
     roots |-> {
        P(1), P(0),
        StructV("main.Pair", <<Fld("a", P(1)), Fld("b", P(1))>>),
        StructV("main.Outer", <<Fld("p", P(1)), Fld("in", InnerV(1, 1))>>),
        StructV("main.Outer", <<Fld("p", P(1)), Fld("in", InnerV(2, 0))>>),
        StructV("main.Outer2", <<Fld("in", InnerV(1, 2)), Fld("p", P(1))>>),
        InnerV(0, 1),
        StructV("main.Hide", <<Hid("h", P(1)), Fld("In", InnerV(1, 0)), Hid("g", P(2))>>),
        SliceV("[]*int", <<P(1), P(1)>>),
        SliceV("[]interface {}", <<IfaceV(P(1)), IfaceV(IntV(7))>>),
        MapV("map[string]*int", <<Ent(StrV("a"), P(1)), Ent(StrV("b"), P(1))>>),
        MapV("map[*int]string", <<Ent(P(1), StrV("a")), Ent(P(2), StrV("b"))>>),
        MapV("map[string]interface {}", <<Ent(StrV("b"), IfaceV(InnerV(1, 0))),
                                          Ent(StrV("a"), IfaceV(P(1)))>>)
     }]

\* linked records: 1 -> 2 -> 1, 3 -> 3, 4 -> nil
Linked ==
    [heap |-> <<NodeV(1, 2), NodeV(2, 1), NodeV(3, 3), NodeV(4, 0)>>,
     roots |-> {
        PtrV("*main.Node", 1), PtrV("*main.Node", 3), PtrV("*main.Node", 4),
        NodeV(0, 1),
        SliceV("[]*main.Node", <<PtrV("*main.Node", 3), PtrV("*main.Node", 4)>>)
     }]

\* chains of references and union-wrappers
Chains ==
    [heap |-> <<P(2), IntV(5), P(0), IfaceV(P(2)), NilIface, IfaceV(IntV(9))>>,
     roots |-> {
        PtrV("**int", 1), PtrV("**int", 3),
        PtrV("*interface {}", 4), PtrV("*interface {}", 5), PtrV("*interface {}", 6),
        StructV("main.Two", <<Fld("a", PtrV("**int", 1)), Fld("b", P(2))>>)
     }]

\* references that reach themselves with no record, sequence or mapping
\* between:  type P *P; p = &p  and  var i interface{}; i = &i
Selfs ==
    [heap |-> <<NamedPtrV("main.P", 1), NamedPtrV("main.P", 3),
                NamedPtrV("main.P", 2), IfaceV(PtrV("*interface {}", 4))>>,
     roots |-> {
        NamedPtrV("main.P", 1), NamedPtrV("main.P", 2), PtrV("*interface {}", 4),
        StructV("main.Box", <<Fld("f", NamedPtrV("main.P", 1))>>)
     }]

BytesV(typ, bs) == SliceV(typ, [i \in 1..Len(bs) |-> Uint8V(bs[i])])

\* sequences of bytes
Bytes ==
    [heap |-> <<>>,
     roots |-> {
        BytesV("[]uint8", <<65>>),
        BytesV("[]uint8", <<65, 66>>),
        BytesV("[]uint8", <<1, 65, 127>>),
        BytesV("[]uint8", <<49, 50, 32, 122, 0>>),
        BytesV("[]uint8", <<1, 2, 3, 4, 5, 0>>),
        BytesV("[]uint8", <<1, 2, 3, 4, 5, 0, 1, 2, 3, 4, 5, 0>>),
        ArrayV("[2]uint8", <<Uint8V(65), Uint8V(10)>>),
        StructV("main.Buf", <<Fld("n", IntV(3)),
                              Fld("b", BytesV("[]uint8", <<65, 66, 1>>))>>),
        SliceV("[]uint8", <<>>)
     }]

Worlds == {Scalars, Shared, Linked, Chains, Selfs, Bytes}

\* the values two callers dump at the same time
Pairs ==
    [heap |-> Shared.heap,
     roots |-> {
        StructV("main.Pair", <<Fld("a", P(1)), Fld("b", P(1))>>),
        MapV("map[*int]string", <<Ent(P(1), StrV("a")), Ent(P(2), StrV("b"))>>)
     }]

Config(sort, ignore, elide, comment) ==
    [Indent |-> " ", SortKeys |-> sort, IgnoreUnexported |-> ignore,
     ElideType |-> elide, CommentPointers |-> comment,
     BytesWidth |-> 16, CommentBytes |-> TRUE]

\* the default configuration with its BytesWidth and CommentBytes set
ByteConfig(width, comment) ==
    [Config(FALSE, FALSE, FALSE, FALSE) EXCEPT !.BytesWidth = width,
                                               !.CommentBytes = comment]

\* the row widths hexDump is given
Widths == {2, 3, 8, 16}

ByteConfigs == {ByteConfig(width, comment) : width \in Widths, comment \in BOOLEAN}

\* the default configuration, each option alone, all options together
Configs ==
    {Config(FALSE, FALSE, FALSE, FALSE), Config(TRUE, FALSE, FALSE, FALSE),
     Config(FALSE, TRUE, FALSE, FALSE), Config(FALSE, FALSE, TRUE, FALSE),
     Config(FALSE, FALSE, FALSE, TRUE), Config(TRUE, TRUE, TRUE, TRUE)}

(***************************************************************************)
(* The specification.                                                      *)
(***************************************************************************)
InitCommon ==
    /\ runs = [p \in Procs |-> 0]
    /\ d = [p \in Procs |-> ZeroDumpState]
    /\ w = [p \in Procs |-> NewWriter(0)]
    /\ stack = [p \in Procs |-> <<>>]
    /\ log = [p \in Procs |-> NoLog]
    /\ tlog = [p \in Procs |-> {}]
    /\ orders = [p \in Procs |-> <<>>]
    /\ prev = [p \in Procs |-> NoSummary]

\* one caller
InitOne ==
    /\ \E wd \in Worlds :
         /\ heap = wd.heap
         /\ \E r \in wd.roots : root = [p \in Procs |-> IF p = 1 THEN r ELSE NoVal]
    /\ cs \in IF heap = <<>> /\ root[1] \in Bytes.roots THEN ByteConfigs ELSE Configs
    /\ \E md \in {"dump", "walk"} : mode = [p \in Procs |-> IF p = 1 THEN md ELSE "dump"]
    /\ ps = [p \in Procs |-> IF p = 1 THEN "idle" ELSE "off"]
    /\ InitCommon

\* two callers at the same time
InitTwo ==
    /\ heap = Pairs.heap
    /\ root \in [Procs -> Pairs.roots]
    /\ cs = Config(FALSE, FALSE, FALSE, TRUE)
    /\ \E md \in {"dump", "walk"} : mode = [p \in Procs |-> IF p = 1 THEN "dump" ELSE md]
    /\ ps = [p \in Procs |-> "idle"]
    /\ InitCommon

Init == InitOne \/ InitTwo

Step(p) ==
    \/ Fdump(p) \/ FdumpEnd(p) \/ WalkStart(p) \/ WalkEnd(p)
    \/ DumpValue(p) \/ DumpPtrCall(p) \/ Return(p)
    \/ DumpPtrPurge(p) \/ DumpPtrChain(p) \/ DumpPtrShow(p)
    \/ DumpSliceOpen(p) \/ DumpSliceElem(p) \/ DumpSliceElemRet(p)
    \/ DumpSliceHex(p)
    \/ DumpSliceEnd(p) \/ DumpSliceClose(p)
    \/ DumpMapOpen(p) \/ DumpMapKey(p) \/ DumpMapValue(p)
    \/ DumpMapPairEnd(p) \/ DumpMapClose(p)
    \/ DumpStructOpen(p) \/ DumpStructField(p) \/ DumpStructSkip(p)
    \/ DumpStructFieldEnd(p) \/ DumpStructClose(p)
    \/ WalkValue(p) \/ WalkPtrCall(p)
    \/ WalkPtrPurge(p) \/ WalkPtrChain(p) \/ WalkPtrDone(p)
    \/ WalkSliceOpen(p) \/ WalkSliceElem(p) \/ WalkSliceEnd(p)
    \/ WalkMapOpen(p) \/ WalkMapKey(p) \/ WalkMapValue(p) \/ WalkMapClose(p)
    \/ WalkStructOpen(p) \/ WalkStructField(p) \/ WalkStructSkip(p)
    \/ WalkStructClose(p)

Next == \E p \in Procs : Step(p)

Spec == Init /\ [][Next]_vars

\* a dump runs on its caller's thread: a call that can take a step takes it
FairSpec == Spec /\ \A p \in Procs : WF_vars(Step(p))

(***************************************************************************)
(* Termination and the circular-reference marker.                          *)
(***************************************************************************)
\* the references examined so far by the chain walks of caller p
Events(p) == log[p].ev

\* C1: every dump and every tracker-only traversal that has started
\* eventually returns, whatever reference cycles the value graph holds.
Terminates == \A p \in Procs : (ps[p] = "running") ~> (ps[p] = "done")

\* C2: a reference whose address is held by a reference on the current path
\* is never descended into: it is answered with the circular-reference
\* marker, and a finished dump has written one marker for each such re-entry.
CycleMarkedOnce ==
    \A p \in Procs :
       /\ \A e \in Events(p) : e.onPath => e.dec = "cycle"
       /\ (ps[p] = "done" /\ mode[p] = "dump") => log[p].nmark = log[p].ncyc

\* C3: of two sibling references (fields of one record, elements of one
\* sequence, values of one mapping) that hold the same address, an address
\* no reference on the current path holds, neither gets the
\* circular-reference marker.
SiblingsInFull ==
    \A p \in Procs : \A e \in Events(p) :
       (e.sib /\ e.first /\ ~e.onPath) => e.dec # "cycle"

\* C4: the circular-reference marker is given to a reference only if its
\* address is held by a reference on the current path from the root.
MarkerOnlyForAncestor ==
    \A p \in Procs : \A e \in Events(p) :
       (e.dec = "cycle") => e.onPath

(***************************************************************************)
(* Key order, hidden fields, type elision.                                 *)
(***************************************************************************)
\* caller p has finished a traversal and made one of the same kind before
Again(p) == ps[p] = "done" /\ prev[p].valid /\ prev[p].mode = mode[p]

\* C5: with SortKeys, two dumps of the same value are the same bytes,
\* whatever orders the mappings handed their keys out in.
SortedOrderDeterministic ==
    \A p \in Procs :
       (Again(p) /\ mode[p] = "dump" /\ cs.SortKeys /\ prev[p].root = root[p])
          => w[p].att = prev[p].att

\* the names of the exported fields among the first n fields
ExportedNames(kids, n) ==
    LET ks == SelectSeq(SubSeq(kids, 1, n), LAMBDA k : k.exported)
    IN [j \in 1..Len(ks) |-> ks[j].name]

\* C6: with IgnoreUnexported, a record loop has visited exactly the exported
\* fields it has passed, in declaration order; and the dump (or the
\* tracker-only walk) of a value writes the bytes, examines the references,
\* makes the type decisions and records the nodes that the dump of the same
\* value with its unexported fields removed does.
HiddenFieldsInvisible ==
    \A p \in Procs : cs.IgnoreUnexported =>
       /\ \A k \in 1..Len(stack[p]) :
             LET f == stack[p][k] IN
             (f.v.kind = "Struct" /\ f.pc \in {"structLoop", "fieldRet", "wstructLoop"})
                => f.names = ExportedNames(f.v.kids,
                                IF f.pc = "fieldRet" THEN f.i ELSE f.i - 1)
       /\ (Again(p) /\ root[p] = Strip(prev[p].root) /\ orders[p] = prev[p].orders)
             => /\ w[p].att = prev[p].att
                /\ log[p].ev = prev[p].ev
                /\ tlog[p] = prev[p].tlog
                /\ d[p].nodes = prev[p].nodes

\* C6 happens: a record with unexported fields has been dumped, and then the
\* same record without them.
HiddenFieldSkipped ==
    /\ cs.IgnoreUnexported /\ Again(1) /\ mode[1] = "dump"
    /\ root[1] # prev[1].root /\ root[1] = Strip(prev[1].root)
    /\ w[1].att # "" /\ w[1].att = prev[1].att

\* the literal of a scalar of a default type
BareText(v) ==
    CASE v.typ = "int" -> ToString(v.n)
      [] v.typ = "float64" -> ToString(v.n) \o "." \o (IF v.s = "" THEN "0" ELSE v.s)
      [] v.typ = "string" -> "\"" \o v.s \o "\""
      [] v.typ = "bool" -> IF v.n = 1 THEN "true" ELSE "false"

\* the literal of a scalar of another type, as it stands in parentheses
ParenText(v) ==
    CASE v.kind = "Float32" -> ToString(v.n) \o (IF v.s = "" THEN "" ELSE "." \o v.s)
      [] v.kind = "Uint8" -> "0x" \o Hex(v.n)
      [] OTHER -> ToString(v.n)

ScalarKinds == {"Int", "Int32", "Uint8", "Float32", "Float64", "String", "Bool"}
DefaultTypes == {"int", "float64", "string", "bool"}

\* C7: with ElideType, the dump of a top-level scalar of type int, float64,
\* string or bool is its bare literal (a float64 with a decimal point) and a
\* newline; the dump of a top-level scalar of any other type is the type
\* name, the literal in parentheses and a newline.
TopLevelElision ==
    \A p \in Procs :
       (ps[p] = "done" /\ mode[p] = "dump" /\ cs.ElideType
          /\ root[p].kind \in ScalarKinds)
       => w[p].att = IF root[p].typ \in DefaultTypes
                     THEN BareText(root[p]) \o "\n"
                     ELSE root[p].typ \o "(" \o ParenText(root[p]) \o ")\n"

\* C7 happens: float64(1) has been dumped as 1.0
Float64Bare ==
    /\ ps[1] = "done" /\ mode[1] = "dump" /\ cs.ElideType
    /\ root[1] = F64V(1, "") /\ w[1].att = "1.0\n"

JustStarted(p) ==
    /\ ps[p] = "running" /\ Len(stack[p]) = 1
    /\ stack[p][1].pc \in {"dump", "walk"}

\* C10: a dump starts at depth 0 with an empty tracker table, no node
\* recorded and both suppression flags clear; what it writes, the references
\* it examines and the nodes it records are those of the dump the same caller
\* made before of the same value, and those of a dump of the same value that
\* another caller makes at the same time.
FreshStatePerDump ==
    \A p \in Procs :
       /\ JustStarted(p) =>
             /\ d[p].depth = 0 /\ DOMAIN d[p].pointers = {} /\ d[p].nodes = {}
             /\ ~d[p].ignoreNextType /\ ~d[p].ignoreNextIndent
       /\ (Again(p) /\ prev[p].root = root[p] /\ prev[p].orders = orders[p])
             => /\ w[p].att = prev[p].att
                /\ log[p].ev = prev[p].ev
                /\ d[p].nodes = prev[p].nodes
       /\ \A q \in Procs :
             (ps[p] = "done" /\ ps[q] = "done" /\ mode[p] = mode[q]
                /\ root[p] = root[q] /\ orders[p] = orders[q])
             => /\ w[p].att = w[q].att
                /\ log[p].ev = log[q].ev
                /\ d[p].nodes = d[q].nodes

\* C10 happens: two callers have dumped the same record at the same time
TwoDumpsAgree ==
    /\ ps[1] = "done" /\ ps[2] = "done" /\ mode[1] = "dump" /\ mode[2] = "dump"
    /\ root[1] = root[2] /\ root[1].kind = "Struct"
    /\ log[1].ev # {} /\ w[1].att # "" /\ w[1].att = w[2].att

(***************************************************************************)
(* The rows of a sequence of bytes.                                        *)
(***************************************************************************)
\* the value is a non-empty sequence of bytes
IsBytes(v) ==
    v.kind \in {"Slice", "Array"} /\ Len(v.kids) > 0 /\ v.kids[1].val.kind = "Uint8"

PlainText == ~cs.CommentPointers /\ ~cs.ElideType

\* caller p has dumped value v to the end
Dumped(p, v) == ps[p] = "done" /\ mode[p] = "dump" /\ root[p] = v

\* C12: a chain walk that has found nil stands at a nil reference or a nil
\* union-wrapper, has counted the levels it followed and no more, calls
\* nothing further and leaves no table entry for nil; the dump writes the
\* markers of the levels followed, the type of the value it stopped at and
\* (nil), and goes on with the next sibling to the end.
NilStopsChain ==
    \A p \in Procs :
       /\ 0 \notin DOMAIN d[p].pointers
       /\ \A k \in 1..Len(stack[p]) :
             LET f == stack[p][k] IN
             f.nilFound =>
                /\ k = Len(stack[p]) /\ f.pc \in {"chain", "wchain"}
                /\ ~f.cycleFound
                /\ f.ve.kind \in {"Ptr", "Interface"} /\ IsNil(f.ve)
                /\ f.indirects = Len(f.addrs)
                /\ \A a \in DOMAIN d[p].pointers :
                      d[p].pointers[a] = d[p].depth
                         => a \in {f.addrs[j] : j \in 1..Len(f.addrs)}
       /\ PlainText =>
             /\ Dumped(p, P(0)) => w[p].att = "(*int)(nil)\n"
             /\ Dumped(p, PtrV("**int", 3)) => w[p].att = "&(*int)(nil)\n"
             /\ Dumped(p, PtrV("*interface {}", 5))
                   => w[p].att = "&interface{}(nil)\n"
             /\ Dumped(p, InnerV(0, 1))
                   => w[p].att = "main.Inner{\n q: (*int)(nil),\n r: &int(7),\n}\n"
             /\ Dumped(p, PtrV("*main.Node", 4))
                   => w[p].att =
                        "&main.Node{\n val: int(4),\n next: (*main.Node)(nil),\n}\n"

\* C12 happens: a record whose first field is a nil reference has been
\* dumped to the end, the field after it included
NilThenSibling ==
    /\ PlainText /\ Dumped(1, InnerV(0, 1))
    /\ \E e \in Events(1) : e.dec = "nil"
    /\ \E e \in Events(1) : e.dec = "deref" /\ e.addr = 1

(***************************************************************************)
(* The tracker table and the depth.                                        *)
(***************************************************************************)
\* C13: whenever a chain walk has purged the tracker table and examines a
\* reference, every address the table holds is held by a reference on the
\* current path: the entries of the references the traversal has left are
\* gone.
TableHoldsAncestors ==
    \A p \in Procs :
       (ps[p] = "running" /\ stack[p] # <<>> /\ Top(p).pc \in {"chain", "wchain"})
          => DOMAIN d[p].pointers \subseteq PathAddrs(stack[p])

\* the places of a call at which the children of its compound are processed
InsideBraces ==
    {"structLoop", "fieldRet", "mapLoop", "mapKeyRet", "mapValRet", "sliceClose",
     "walkSlice", "wmapLoop", "wmapKeyRet", "wstructLoop"}

\* d.depth while the call f is the innermost one
DepthOf(f) == IF f.pc \in InsideBraces THEN f.d0 + 1 ELSE f.d0

\* C14: d.depth is never negative; while a call processes the children of
\* its record, non-nil sequence or non-nil mapping it is one more than at
\* the call, and in every other place of a call, the chain walk of a
\* reference and the unwrapping of a union-wrapper included, it is what it
\* was at the call; a call is made at the depth of its caller's place, so it
\* returns with the depth it was called with; the top-level call starts and
\* ends at 0.
DepthBalanced ==
    \A p \in Procs :
       /\ d[p].depth >= 0
       /\ ps[p] = "done" => d[p].depth = 0
       /\ ps[p] = "running" =>
             IF stack[p] = <<>>
             THEN d[p].depth = 0
             ELSE /\ stack[p][1].d0 = 0
                  /\ d[p].depth = DepthOf(Top(p))
                  /\ \A i \in 1..(Len(stack[p]) - 1) :
                        stack[p][i + 1].d0 = DepthOf(stack[p][i])

\* a field of a record behind a reference held by a field of a record has
\* been dumped, two levels deep
NestedFieldDumped ==
    \E p \in Procs :
       /\ Running(p, "fieldRet")
       /\ d[p].depth = 2
       /\ Len(stack[p]) > 2
       /\ \E i \in 1..Len(stack[p]) :
             stack[p][i].pc = "ret" /\ stack[p][i].addrs # <<>>

(***************************************************************************)
(* The reference markers and the pointer comment.                          *)
(***************************************************************************)
\* the chain walk of call f has left its loop
ChainLeft(f) ==
    /\ f.ve # NoVal
    /\ f.pc = "ret" \/ f.ve.kind # "Ptr" \/ f.nilFound \/ f.cycleFound

\* C15: the count of reference markers a chain walk writes is the number of
\* references it dereferenced: the unwrapping of a union-wrapper adds none,
\* and the reference at which nil or a cycle was found adds none.
MarkersCountDerefs ==
    \A p \in Procs :
       mode[p] = "dump" =>
          /\ \A k \in 1..Len(stack[p]) :
                ChainLeft(stack[p][k])
                   => stack[p][k].indirects = Len(stack[p][k].addrs)
          /\ PlainText =>
                /\ Dumped(p, PtrV("**int", 1)) => w[p].att = "&&int(5)\n"
                /\ Dumped(p, PtrV("*interface {}", 4)) => w[p].att = "&&int(5)\n"
                /\ Dumped(p, PtrV("*interface {}", 6)) => w[p].att = "&int(9)\n"
                /\ Dumped(p, PtrV("**int", 3)) => w[p].att = "&(*int)(nil)\n"
                /\ Dumped(p, PtrV("*main.Node", 3))
                      => w[p].att =
                           "&main.Node{\n val: int(3),\n next: (*main.Node)<already shown>,\n}\n"
                /\ Dumped(p, PtrV("*main.Node", 1))
                      => w[p].att =
                           "&main.Node{\n val: int(1),\n next: &main.Node{\n  val: int(2),\n  next: (*main.Node)<already shown>,\n },\n}\n"

\* C15 happens: a dump that followed two references and stopped at a third,
\* which closes a cycle, has ended
CycleRefUnmarked ==
    /\ PlainText /\ Dumped(1, PtrV("*main.Node", 1))
    /\ log[1].nmark = 1
    /\ \E e \in Events(1) : e.dec = "cycle" /\ e.addr = 1 /\ e.depth = 2
    /\ \E e \in Events(1) : e.dec = "deref" /\ e.addr = 2 /\ e.depth = 1

\* the text options under which the pointer comment is written
CommentText == cs.CommentPointers /\ ~cs.ElideType

BothWays(p) ==
    /\ ps[p] = "done" /\ prev[p].valid
    /\ prev[p].mode # mode[p]
    /\ prev[p].root = root[p]
    /\ prev[p].orders = orders[p]

\* C17: walk and dump of the same value under the same configuration examine
\* the same references in the same order, each at the same depth, with the
\* same tracker table, and decide the same at each (nil, cycle, descend).
WalkMirrorsDump ==
    \A p \in Procs : BothWays(p) => log[p].seq = prev[p].seq

====
